---- MODULE Spec2Model ----
(***************************************************************************)
(* Model of idle-inhibitor/inhibitor.py: the IdleInhibitor lock (a         *)
(* systemd-inhibit helper process guarded by a mutex), the SSEMonitor      *)
(* (stream loop, idle timer) and main() (reconnect loop, signal handling,  *)
(* shutdown).                                                              *)
(*                                                                         *)
(* Threads: the main (stream) thread, and one thread per threading.Timer   *)
(* the monitor creates.  A `with lock:` block is entered by its first      *)
(* step, which waits until the mutex is free and takes it (taking a mutex  *)
(* commutes with every step of the other threads that follows it), and     *)
(* the last step of the block releases the mutex.  The blocks under        *)
(* SSEMonitor.timer_lock are one step each, so that mutex is free between  *)
(* steps and needs no variable.                                            *)
(***************************************************************************)
EXTENDS Integers, Sequences, FiniteSets, TLC

\* Number of activity lines the stream delivers; each one creates one
\* threading.Timer and spawns at most one helper process.
MaxEvents == 3

Main    == 0
Timers  == 1..MaxEvents
Clients == {101, 102}          \* callers of the IdleInhibitor API (SpecAPI only)
Threads == {Main} \cup Timers \cup Clients
Helpers == 1..MaxEvents

None == 0                      \* Python's None for process / timer
Free == -1                     \* a mutex nobody holds

VARIABLES
    pc,            \* position of each thread
    process,       \* IdleInhibitor.process: None or the helper's handle
    ilock,         \* IdleInhibitor.lock: Free or the holding thread
    popen,         \* acquire(): what Popen returned, not yet stored
    helper,        \* each systemd-inhibit helper process: "none" (not spawned),
                   \* "alive", "gone" (exited, on its own or terminated by
                   \* release), "leaked" (release's teardown raised, it runs on)
    timer,         \* SSEMonitor.timer: None or a Timer
    ntimers,       \* number of threading.Timer objects created so far
    should_stop,   \* SSEMonitor.should_stop
    signalled,     \* a termination signal has been delivered
    exit_status,   \* -1 while running, else the status the process exited with
    cur_line,      \* the line the stream delivers when one line is under test
                   \* (SpecLines); the empty line otherwise
    last_call,     \* what the caller's IdleInhibitor call in progress did: "none",
                   \* "acquire_held", "acquire_new", "acquire_failed",
                   \* "release_done", "release_noop" (Timer callbacks not recorded)
    sig_held_armed \* history: the signal arrived with the lock Held and a timer armed

vars == <<pc, process, ilock, popen, helper, timer, ntimers, should_stop,
          signalled, exit_status, cur_line, last_call, sig_held_armed>>

inhibitor == <<process, ilock, popen, helper, last_call>>
monitor   == <<timer, ntimers, should_stop>>
history   == <<sig_held_armed, cur_line>>
proc      == <<signalled, exit_status>>

----------------------------------------------------------------------------
(* The stream's lines and the classification handle_event applies.         *)

Whitespace == {" ", "\t"}

Lines ==
    { <<>>,
      <<" ", "\t">>,
      <<":", "k", "e", "e", "p">>,
      <<"d", "a", "t", "a", ":", " ", "{", "}">>,
      <<" ", "d", "a", "t", "a", ":", "x", " ">>,
      <<"d", "a", "t", "a">>,
      <<"e", "v", "e", "n", "t", ":", "x">> }

\* Longest line drawn when handle_event is checked line by line.
MaxLineLen == 6

\* The characters those lines are made of.
Chars == {" ", "\t", ":", "d", "a", "t"}

\* Every line of at most MaxLineLen characters, and the lines above.
AllLines == Lines \cup UNION {[1..n -> Chars] : n \in 0..MaxLineLen}

RECURSIVE LStrip(_)
LStrip(s) == IF s # <<>> /\ Head(s) \in Whitespace THEN LStrip(Tail(s)) ELSE s

RECURSIVE RStrip(_)
RStrip(s) ==
    IF s # <<>> /\ s[Len(s)] \in Whitespace THEN RStrip(SubSeq(s, 1, Len(s) - 1)) ELSE s

\* str.strip()
Strip(s) == RStrip(LStrip(s))

\* str.startswith(prefix)
StartsWith(s, prefix) ==
    /\ Len(s) >= Len(prefix)
    /\ SubSeq(s, 1, Len(prefix)) = prefix

\* Classify without `line = line.strip()`.
Classify_without_strip(raw) ==
    IF raw = <<>> \/ StartsWith(raw, <<":">>) THEN "ignore"
    ELSE IF StartsWith(raw, <<"d", "a", "t", "a", ":">>) THEN "activity"
    ELSE "other"

\* The classification of handle_event: "ignore" (early return), "activity"
\* or "other" (falls through without doing anything).
Classify(raw) ==
    LET line == Strip(raw) IN
    IF line = <<>> \/ StartsWith(line, <<":">>) THEN "ignore"
    ELSE IF StartsWith(line, <<"d", "a", "t", "a", ":">>) THEN "activity"
    ELSE "other"

----------------------------------------------------------------------------
(* Helpers shared by the steps.                                            *)

\* The daemon's process is running (daemon Timer threads die with it).
Running == exit_status = -1

\* A mutex can be taken.
CanLock(l) == l = Free

\* Popen.poll() is None: the helper process is running.
IsAlive(h) == helper[h] \in {"alive", "leaked"}

AliveHelpers == {h \in Helpers : IsAlive(h)}
spawned      == Cardinality({h \in Helpers : helper[h] # "none"})

\* threading.Timer.cancel(): sets the Timer's `finished` event; a Timer whose
\* callback has begun (or that is finished) is not affected.
Cancelled(p, t) ==
    IF t # None /\ p[t] = "armed" THEN [p EXCEPT ![t] = "finished"] ELSE p

Armed(t)    == pc[t] = "armed"
InFlight(t) == pc[t] \in {"rel_check", "rel_term", "rel_fin", "tc_clear"}

\* What a call records for its caller.
Record(th, what) == IF th \in Timers THEN last_call ELSE what

\* Where a thread continues after a call returns.
AfterIsHeld(th, r) ==
    IF th = Main THEN (IF r THEN "reset" ELSE "acq_check") ELSE "api"
AfterAcquire(th) == IF th = Main THEN "reset" ELSE "api"
AfterRelease(th) ==
    IF th = Main THEN "fin" ELSE IF th \in Timers THEN "tc_clear" ELSE "api"

Goto(th, where) == pc' = [pc EXCEPT ![th] = where]

----------------------------------------------------------------------------
(* IdleInhibitor                                                           *)

InitState ==
    /\ process = None
    /\ ilock = Free
    /\ popen = None
    /\ helper = [h \in Helpers |-> "none"]
    /\ timer = None
    /\ ntimers = 0
    /\ should_stop = FALSE
    /\ signalled = FALSE
    /\ exit_status = -1
    /\ last_call = "none"
    /\ sig_held_armed = FALSE

Init ==
    /\ pc = [th \in Threads |->
               IF th = Main THEN "start" ELSE IF th \in Timers THEN "new" ELSE "off"]
    /\ InitState
    /\ cur_line = <<>>

\* acquire_check without the "already held" test: it always spawns.
acquire_check_always_spawns(th) ==
    /\ Running
    /\ pc[th] = "acq_check"
    /\ CanLock(ilock)
    /\ Goto(th, "acq_spawn")
    /\ ilock' = th
    /\ UNCHANGED <<process, popen, helper, last_call>>
    /\ UNCHANGED <<monitor, history, proc>>

\* acquire(): `with self.lock:` and `if self.process is not None: return True`
acquire_check(th) ==
    /\ Running
    /\ pc[th] = "acq_check"
    /\ CanLock(ilock)
    /\ IF process # None
         THEN /\ last_call' = Record(th, "acquire_held")
              /\ ilock' = Free
              /\ Goto(th, AfterAcquire(th))
         ELSE /\ Goto(th, "acq_spawn")
              /\ ilock' = th
              /\ UNCHANGED last_call
    /\ UNCHANGED <<process, popen, helper>>
    /\ UNCHANGED <<monitor, history, proc>>

\* acquire_spawn that tries again at once when Popen raises.
acquire_spawn_retrying(th) ==
    /\ Running
    /\ pc[th] = "acq_spawn"
    /\ \/ /\ spawned < MaxEvents
          /\ helper' = [helper EXCEPT ![spawned + 1] = "alive"]
          /\ popen' = spawned + 1
          /\ Goto(th, "acq_store")
          /\ UNCHANGED <<process, ilock, last_call>>
       \/ /\ process' = None
          /\ last_call' = Record(th, "acquire_failed")
          /\ ilock' = Free
          /\ Goto(th, "acq_check")
          /\ UNCHANGED <<helper, popen>>
    /\ UNCHANGED <<monitor, history, proc>>

\* acquire(): subprocess.Popen(...) either starts a helper or raises; the
\* `except Exception` branch stores None and returns False.
acquire_spawn(th) ==
    /\ Running
    /\ pc[th] = "acq_spawn"
    /\ \/ /\ spawned < MaxEvents
          /\ helper' = [helper EXCEPT ![spawned + 1] = "alive"]
          /\ popen' = spawned + 1
          /\ Goto(th, "acq_store")
          /\ UNCHANGED <<process, ilock, last_call>>
       \/ /\ process' = None
          /\ last_call' = Record(th, "acquire_failed")
          /\ ilock' = Free
          /\ Goto(th, AfterAcquire(th))
          /\ UNCHANGED <<helper, popen>>
    /\ UNCHANGED <<monitor, history, proc>>

\* acquire(): `self.process = <the Popen object>`
acquire_store(th) ==
    /\ Running
    /\ pc[th] = "acq_store"
    /\ process' = popen
    /\ popen' = None
    /\ Goto(th, "acq_poll")
    /\ UNCHANGED <<ilock, helper, last_call>>
    /\ UNCHANGED <<monitor, history, proc>>

\* acquire_poll that keeps the handle of a helper that died at once.
acquire_poll_keeping_handle(th) ==
    /\ Running
    /\ pc[th] = "acq_poll"
    /\ IF process # None /\ IsAlive(process)
         THEN last_call' = Record(th, "acquire_new")
         ELSE last_call' = Record(th, "acquire_failed")
    /\ ilock' = Free
    /\ Goto(th, AfterAcquire(th))
    /\ UNCHANGED <<process, popen, helper>>
    /\ UNCHANGED <<monitor, history, proc>>

\* acquire(): after sleep(0.1), `if self.process.poll() is not None` the
\* helper died at once: store None, return False; else return True.
acquire_poll(th) ==
    /\ Running
    /\ pc[th] = "acq_poll"
    /\ IF process # None /\ IsAlive(process)
         THEN /\ last_call' = Record(th, "acquire_new")
              /\ UNCHANGED process
         ELSE /\ last_call' = Record(th, "acquire_failed")
              /\ process' = None
    /\ ilock' = Free
    /\ Goto(th, AfterAcquire(th))
    /\ UNCHANGED <<popen, helper>>
    /\ UNCHANGED <<monitor, history, proc>>

\* release_check without `with self.lock:`.
release_check_without_lock(th) ==
    /\ Running
    /\ pc[th] = "rel_check"
    /\ IF process # None
         THEN /\ Goto(th, "rel_term")
              /\ ilock' = th
              /\ UNCHANGED last_call
         ELSE /\ ilock' = Free
              /\ last_call' = Record(th, "release_noop")
              /\ Goto(th, AfterRelease(th))
    /\ UNCHANGED <<process, popen, helper>>
    /\ UNCHANGED <<monitor, history, proc>>

\* release(): `with self.lock:` and `if self.process is not None:`, else
\* nothing to do.
release_check(th) ==
    /\ Running
    /\ pc[th] = "rel_check"
    /\ CanLock(ilock)
    /\ IF process # None
         THEN /\ Goto(th, "rel_term")
              /\ ilock' = th
              /\ UNCHANGED last_call
         ELSE /\ ilock' = Free
              /\ last_call' = Record(th, "release_noop")
              /\ Goto(th, AfterRelease(th))
    /\ UNCHANGED <<process, popen, helper>>
    /\ UNCHANGED <<monitor, history, proc>>

\* release_teardown with terminate() forgotten: the helper is left as it is.
release_teardown_without_terminate(th) ==
    /\ Running
    /\ pc[th] = "rel_term"
    /\ Goto(th, "rel_fin")
    /\ UNCHANGED <<process, ilock, popen, helper, last_call>>
    /\ UNCHANGED <<monitor, history, proc>>

\* release(): terminate(), wait(timeout=5), on timeout kill() and wait().
\* Either the helper is gone afterwards, or a step of the teardown raised
\* and `except Exception` logged it, the helper still running.
release_teardown(th) ==
    /\ Running
    /\ pc[th] = "rel_term"
    /\ IF process = None
         THEN UNCHANGED helper                       \* AttributeError, caught
         ELSE \/ helper' = [helper EXCEPT ![process] = "gone"]
              \/ /\ IsAlive(process)
                 /\ helper' = [helper EXCEPT ![process] = "leaked"]
    /\ Goto(th, "rel_fin")
    /\ UNCHANGED <<process, ilock, popen, last_call>>
    /\ UNCHANGED <<monitor, history, proc>>

\* release_finally as if `self.process = None` sat in the try block: it is
\* skipped when the teardown raised.
release_finally_only_on_success(th) ==
    /\ Running
    /\ pc[th] = "rel_fin"
    /\ process' = IF process # None /\ helper[process] = "leaked" THEN process ELSE None
    /\ ilock' = Free
    /\ last_call' = Record(th, "release_done")
    /\ Goto(th, AfterRelease(th))
    /\ UNCHANGED <<popen, helper>>
    /\ UNCHANGED <<monitor, history, proc>>

\* release(): `finally: self.process = None`, and the lock is dropped.
release_finally(th) ==
    /\ Running
    /\ pc[th] = "rel_fin"
    /\ process' = None
    /\ ilock' = Free
    /\ last_call' = Record(th, "release_done")
    /\ Goto(th, AfterRelease(th))
    /\ UNCHANGED <<popen, helper>>
    /\ UNCHANGED <<monitor, history, proc>>

\* is_held without `with self.lock:`.
is_held_without_lock(th) ==
    /\ Running
    /\ pc[th] = "is_held"
    /\ IF process = None
         THEN /\ Goto(th, AfterIsHeld(th, FALSE))
              /\ UNCHANGED process
         ELSE IF ~IsAlive(process)
         THEN /\ process' = None
              /\ Goto(th, AfterIsHeld(th, FALSE))
         ELSE /\ Goto(th, AfterIsHeld(th, TRUE))
              /\ UNCHANGED process
    /\ UNCHANGED <<ilock, popen, helper, last_call>>
    /\ UNCHANGED <<monitor, history, proc>>

\* is_held that trusts the stored handle and never polls the helper.
is_held_without_poll(th) ==
    /\ Running
    /\ pc[th] = "is_held"
    /\ CanLock(ilock)
    /\ Goto(th, AfterIsHeld(th, process # None))
    /\ UNCHANGED <<process, ilock, popen, helper, last_call>>
    /\ UNCHANGED <<monitor, history, proc>>

\* is_held(), under `with self.lock:`: None -> False; poll() says the helper
\* died -> store None, return False; else True.
is_held(th) ==
    /\ Running
    /\ pc[th] = "is_held"
    /\ CanLock(ilock)
    /\ IF process = None
         THEN /\ Goto(th, AfterIsHeld(th, FALSE))
              /\ UNCHANGED process
         ELSE IF ~IsAlive(process)
         THEN /\ process' = None
              /\ Goto(th, AfterIsHeld(th, FALSE))
         ELSE /\ Goto(th, AfterIsHeld(th, TRUE))
              /\ UNCHANGED process
    /\ UNCHANGED <<ilock, popen, helper, last_call>>
    /\ UNCHANGED <<monitor, history, proc>>

\* A running helper process exits on its own (crash, killed from outside).
helper_dies ==
    /\ \E h \in Helpers :
          /\ helper[h] = "alive"
          /\ helper' = [helper EXCEPT ![h] = "gone"]
    /\ UNCHANGED <<pc, process, ilock, popen, last_call>>
    /\ UNCHANGED <<monitor, history, proc>>

----------------------------------------------------------------------------
(* SSEMonitor                                                              *)

\* reset_idle_timer that creates and stores the new Timer and never
\* starts it.
reset_idle_timer_without_start ==
    /\ Running
    /\ pc[Main] = "reset"
    /\ ntimers' = ntimers + 1
    /\ timer' = ntimers + 1
    /\ pc' = [Cancelled(pc, timer) EXCEPT ![Main] = "stream"]
    /\ last_call' = "none"
    /\ UNCHANGED should_stop
    /\ UNCHANGED <<process, ilock, popen, helper>>
    /\ UNCHANGED <<history, proc>>

\* reset_idle_timer(), under `with self.timer_lock:`: cancel the Timer
\* self.timer refers to, if any, then create and start a new Timer and
\* store it; handle_event returns.
reset_idle_timer ==
    /\ Running
    /\ pc[Main] = "reset"
    /\ ntimers' = ntimers + 1
    /\ timer' = ntimers + 1
    /\ pc' = [Cancelled(pc, timer) EXCEPT ![ntimers + 1] = "armed", ![Main] = "stream"]
    /\ last_call' = "none"
    /\ UNCHANGED should_stop
    /\ UNCHANGED <<process, ilock, popen, helper>>
    /\ UNCHANGED <<history, proc>>

\* timer_fire with the callback forgetting to call release().
timer_fire_without_release(t) ==
    /\ Running
    /\ pc[t] = "armed"
    /\ Goto(t, "tc_clear")
    /\ UNCHANGED <<inhibitor, monitor, history, proc>>

\* threading.Timer.run(): the interval elapsed and the timer was not
\* cancelled: _on_idle_timeout begins and calls self.inhibitor.release().
timer_fire(t) ==
    /\ Running
    /\ pc[t] = "armed"
    /\ Goto(t, "rel_check")
    /\ UNCHANGED <<inhibitor, monitor, history, proc>>

\* _on_idle_timeout(), after release() returned, under
\* `with self.timer_lock:`: `self.timer = None`, whichever Timer that is.
on_idle_timeout_clear(t) ==
    /\ Running
    /\ pc[t] = "tc_clear"
    /\ timer' = None
    /\ Goto(t, "finished")
    /\ UNCHANGED <<ntimers, should_stop>>
    /\ UNCHANGED <<inhibitor, history, proc>>

\* cancel_timer(), under `with self.timer_lock:`: cancel self.timer if
\* there is one and forget it; stop() returns and main() goes on to
\* inhibitor.release().
cancel_timer ==
    /\ Running
    /\ pc[Main] = "cancel"
    /\ pc' = [Cancelled(pc, timer) EXCEPT ![Main] = "rel_check"]
    /\ timer' = None
    /\ UNCHANGED <<ntimers, should_stop>>
    /\ UNCHANGED <<inhibitor, history, proc>>

\* Where main() continues when connect_and_monitor() has returned:
\* `if monitor.should_stop.is_set(): break`, else the reconnect delay.
AfterAttempt == IF should_stop THEN "stop" ELSE "sleep"

\* connect_and_monitor(): the loop takes the next line of the stream and
\* passes it to handle_event, which classifies it; an activity line goes
\* on to is_held().
handle_event(line) ==
    /\ Running
    /\ pc[Main] = "stream"
    /\ IF should_stop
         THEN Goto(Main, AfterAttempt)
         ELSE IF Classify(line) = "activity"
         THEN /\ ntimers < MaxEvents
              /\ Goto(Main, "is_held")
         ELSE UNCHANGED pc
    /\ UNCHANGED <<inhibitor, monitor, history, proc>>

\* connect_and_monitor(): session.get / raise_for_status either connects
\* or raises a RequestException (return False).
connect ==
    /\ Running
    /\ pc[Main] = "connect"
    /\ \/ Goto(Main, "stream")
       \/ Goto(Main, AfterAttempt)
    /\ UNCHANGED <<inhibitor, monitor, history, proc>>

\* stream_end that takes a graceful end of the stream as the end of the
\* main loop.
stream_end_leaving_loop ==
    /\ Running
    /\ pc[Main] = "stream"
    /\ Goto(Main, "stop")
    /\ UNCHANGED <<inhibitor, monitor, history, proc>>

\* connect_and_monitor(): iter_lines is exhausted, "SSE stream ended".
stream_end ==
    /\ Running
    /\ pc[Main] = "stream"
    /\ Goto(Main, AfterAttempt)
    /\ UNCHANGED <<inhibitor, monitor, history, proc>>

\* stream_error with the lock and the timer dropped when the connection
\* drops.
stream_error_releasing ==
    /\ Running
    /\ pc[Main] = "stream"
    /\ pc' = [Cancelled(pc, timer) EXCEPT ![Main] = AfterAttempt]
    /\ process' = None
    /\ timer' = None
    /\ UNCHANGED <<ilock, popen, helper, last_call, ntimers, should_stop>>
    /\ UNCHANGED <<history, proc>>

\* connect_and_monitor(): reading the stream raises; caught, return False.
stream_error ==
    /\ Running
    /\ pc[Main] = "stream"
    /\ Goto(Main, AfterAttempt)
    /\ UNCHANGED <<inhibitor, monitor, history, proc>>

\* stop that also drops the lock's handle.
stop_releasing ==
    /\ Running
    /\ pc[Main] = "stop"
    /\ should_stop' = TRUE
    /\ process' = None
    /\ Goto(Main, "cancel")
    /\ UNCHANGED <<timer, ntimers>>
    /\ UNCHANGED <<ilock, popen, helper, last_call, history, proc>>

\* stop(): `self.should_stop.set()`, then cancel_timer().
stop ==
    /\ Running
    /\ pc[Main] = "stop"
    /\ should_stop' = TRUE
    /\ Goto(Main, "cancel")
    /\ UNCHANGED <<timer, ntimers>>
    /\ UNCHANGED <<inhibitor, history, proc>>

----------------------------------------------------------------------------
(* main() and the signal handler                                           *)

\* startup that reports a failed availability check with status 0.
startup_exit_zero ==
    /\ Running
    /\ pc[Main] = "start"
    /\ \/ /\ Goto(Main, "connect")
          /\ UNCHANGED exit_status
       \/ /\ Goto(Main, "exited")
          /\ exit_status' = 0
    /\ UNCHANGED signalled
    /\ UNCHANGED <<inhibitor, monitor, history>>

\* main(): the systemd-inhibit availability check, then the handlers are
\* installed, the objects built and the loop is entered; a failed check
\* is sys.exit(1).
startup ==
    /\ Running
    /\ pc[Main] = "start"
    /\ \/ /\ Goto(Main, "connect")
          /\ UNCHANGED exit_status
       \/ /\ Goto(Main, "exited")
          /\ exit_status' = 1
    /\ UNCHANGED signalled
    /\ UNCHANGED <<inhibitor, monitor, history>>

\* main(): time.sleep(RECONNECT_DELAY), then the next connect_and_monitor().
reconnect ==
    /\ Running
    /\ pc[Main] = "sleep"
    /\ Goto(Main, "connect")
    /\ UNCHANGED <<inhibitor, monitor, history, proc>>

\* Main-thread positions inside main()'s try block.
TryPcs == {"connect", "stream", "sleep", "is_held", "acq_check", "acq_spawn",
           "acq_store", "acq_poll", "reset"}

\* signal_handler(): SIGINT/SIGTERM raises KeyboardInterrupt in the main
\* thread wherever it is; every `with` block it is in drops its mutex, the
\* locals are lost, and main() continues at `finally: monitor.stop()`.
signal_handler ==
    /\ Running
    /\ ~signalled
    /\ pc[Main] \in TryPcs
    /\ signalled' = TRUE
    /\ ilock' = IF ilock = Main THEN Free ELSE ilock
    /\ popen' = None
    /\ sig_held_armed' = (process # None /\ \E t \in Timers : Armed(t))
    /\ Goto(Main, "stop")
    /\ UNCHANGED <<process, helper, last_call, cur_line>>
    /\ UNCHANGED <<timer, ntimers, should_stop, exit_status>>

\* main(): release() has returned, "Shutdown complete", main() returns and
\* the process ends (with it every daemon Timer thread).
main_exit ==
    /\ Running
    /\ pc[Main] = "fin"
    /\ exit_status' = 0
    /\ Goto(Main, "exited")
    /\ UNCHANGED signalled
    /\ UNCHANGED <<inhibitor, monitor, history>>

----------------------------------------------------------------------------
(* The program                                                             *)

InhibitorStep(th) ==
    \/ acquire_check(th)
    \/ acquire_spawn(th)
    \/ acquire_store(th)
    \/ acquire_poll(th)
    \/ release_check(th)
    \/ release_teardown(th)
    \/ release_finally(th)
    \/ is_held(th)

\* Steps of the main thread that do not wait for the stream.
MainInternal ==
    \/ InhibitorStep(Main)
    \/ reset_idle_timer
    \/ cancel_timer
    \/ stop
    \/ startup
    \/ connect
    \/ reconnect
    \/ main_exit

\* Steps of the main thread that the stream decides.
StreamStep ==
    \/ \E line \in Lines : handle_event(line)
    \/ stream_end
    \/ stream_error

TimerStep(t) ==
    \/ timer_fire(t)
    \/ release_check(t)
    \/ release_teardown(t)
    \/ release_finally(t)
    \/ on_idle_timeout_clear(t)

Next ==
    \/ MainInternal
    \/ StreamStep
    \/ \E t \in Timers : TimerStep(t)
    \/ signal_handler
    \/ helper_dies

Spec == Init /\ [][Next]_vars

\* Threads that can run do run; the stream and the signal are free not to
\* deliver anything, and a helper is free to stay alive.
FairSpec ==
    /\ Spec
    /\ WF_vars(MainInternal)
    /\ \A t \in Timers : WF_vars(TimerStep(t))

----------------------------------------------------------------------------
(* The IdleInhibitor on its own: callers that invoke acquire(), release()  *)
(* and is_held() in any order, from two threads.                           *)

InitAPI ==
    /\ pc = [th \in Threads |->
               IF th \in Clients THEN "api" ELSE IF th \in Timers THEN "new" ELSE "off"]
    /\ InitState
    /\ cur_line = <<>>

api_call(c) ==
    /\ pc[c] = "api"
    /\ \/ /\ spawned < MaxEvents
          /\ Goto(c, "acq_check")
       \/ Goto(c, "rel_check")
       \/ Goto(c, "is_held")
    /\ last_call' = "none"
    /\ UNCHANGED <<process, ilock, popen, helper>>
    /\ UNCHANGED <<monitor, history, proc>>

NextAPI ==
    \/ \E c \in Clients : api_call(c) \/ InhibitorStep(c)
    \/ helper_dies

SpecAPI == InitAPI /\ [][NextAPI]_vars

----------------------------------------------------------------------------
(* handle_event line by line: the stream is connected and delivers one     *)
(* line, drawn from AllLines, again and again; no timer expires.           *)

InitLines ==
    /\ pc = [th \in Threads |->
               IF th = Main THEN "stream" ELSE IF th \in Timers THEN "new" ELSE "off"]
    /\ InitState
    /\ cur_line \in AllLines

NextLines ==
    \/ handle_event(cur_line)
    \/ is_held(Main)
    \/ acquire_check(Main)
    \/ acquire_spawn(Main)
    \/ acquire_store(Main)
    \/ acquire_poll(Main)
    \/ reset_idle_timer

SpecLines == InitLines /\ [][NextLines]_vars

----------------------------------------------------------------------------
(* Properties                                                              *)

Held == process # None

ArmedTimers == {t \in Timers : Armed(t)}

\* The Timer armed by the most recent activity line has not expired.
LatestArmed == ntimers >= 1 /\ Armed(ntimers)

\* A step in which thread th performs release()'s teardown.
TearsDown(th) == pc[th] = "rel_term" /\ pc'[th] = "rel_fin"

\* C1: no idle-timeout callback tears the lock down while the timer armed
\* by the most recent activity line has not yet expired: the lock stays
\* Held until (last activity line + idle timeout).
C1_HeldUntilLastDeadline ==
    [][\A t \in Timers : (TearsDown(t) /\ Held) => ~LatestArmed]_vars

\* C2: when handle_event returns for an activity line whose spawn did not
\* fail, the lock is Held and an idle timer is armed.
C2_ActivityEnsuresHeld ==
    [][(pc[Main] = "reset" /\ pc'[Main] = "stream" /\ last_call # "acquire_failed")
          => (process' # None /\ \E t \in Timers : pc'[t] = "armed")]_vars

\* C3: at most one idle timer is armed at any time.
C3_SingleIdleTimer == Cardinality(ArmedTimers) <= 1

\* C4: a Held lock is eventually Released (the stream delivers finitely
\* many activity lines; timer threads and the main thread are scheduled
\* fairly).
C4_NeverHeldForever == Held ~> ~Held

\* C4 witness: an idle-timeout callback has terminated the helper of a Held
\* lock and is about to clear the handle, the stream being silent.
C4_TimerReleases ==
    \E t \in Timers : pc[t] = "rel_fin" /\ Held /\ helper[process] = "gone" /\ pc[Main] = "stream"

\* C5 as stated: at most one helper process is alive at any time.
C5_AtMostOneHelperAlive == Cardinality(AliveHelpers) <= 1

\* C5 as amended: at most one helper process is alive at any time apart
\* from the helpers leaked by a release() whose teardown raised.
C5_AtMostOneUnleakedHelper ==
    Cardinality({h \in Helpers : helper[h] = "alive"}) <= 1

\* C5 witness: a helper was leaked by a failed teardown and the lock is
\* held again through a new helper.
C5_LeakThenReacquired ==
    /\ \E h \in Helpers : helper[h] = "leaked"
    /\ Held /\ helper[process] = "alive"

\* Thread th is inside the critical section of acquire() or release().
InCS(th) == pc[th] \in {"acq_spawn", "acq_store", "acq_poll", "rel_term", "rel_fin"}

\* C6: while a thread is inside the critical section of acquire() or
\* release() it holds the mutex, and no step of another thread changes
\* process or takes the mutex.
C6_LockAtomicity ==
    [][\A th \in Threads :
          InCS(th) => /\ ilock = th
                      /\ pc'[th] = pc[th] => (process' = process /\ ilock' = ilock)]_vars

\* C6 witness: one caller's release() has terminated the helper and not yet
\* cleared the handle while another caller waits at the entry of acquire().
C6_AcquireWaitsForRelease ==
    \E a, b \in Threads : a # b /\ pc[a] = "acq_check" /\ pc[b] = "rel_fin" /\ Held

\* C7: every teardown acts on a stored handle while no other release() is
\* between its test and `self.process = None`, so each Held period ends
\* with one teardown; a release() that finds the lock Released tears
\* nothing down.
C7_ReleaseOnce ==
    [][\A th \in Threads :
          /\ TearsDown(th) => /\ Held
                              /\ \A o \in Threads \ {th} :
                                    pc[o] \notin {"rel_term", "rel_fin"}
          /\ (pc[th] = "rel_check" /\ pc'[th] # "rel_check" /\ ~Held)
                => (pc'[th] = AfterRelease(th) /\ helper' = helper /\ ~Held')]_vars

\* C7 witness: an idle-timeout callback has torn the helper down and is
\* about to clear the handle while main()'s release() waits for the mutex.
C7_OverlappingReleases ==
    /\ pc[Main] = "rel_check"
    /\ \E t \in Timers : pc[t] = "rel_fin" /\ Held /\ helper[process] = "gone"

\* C8: acquire() on a Held lock returns True, spawns nothing and leaves the
\* handle as it is; release() on a Released lock tears nothing down and
\* leaves it Released.
C8_Idempotence ==
    [][\A c \in Threads :
          /\ (pc[c] = "acq_check" /\ pc'[c] # "acq_check" /\ Held)
                => /\ process' = process
                   /\ helper' = helper
                   /\ last_call' = "acquire_held"
                   /\ pc'[c] = AfterAcquire(c)
          /\ (pc[c] = "rel_check" /\ pc'[c] # "rel_check" /\ ~Held)
                => /\ process' = None
                   /\ helper' = helper
                   /\ pc'[c] = AfterRelease(c)]_vars

\* C8 witness: an acquire() on a Held lock has returned.
C8_AcquireOnHeld == last_call = "acquire_held" /\ Held

\* Main-thread positions of the connection loop outside handle_event.
ReconnectPcs == {"connect", "stream", "sleep"}

\* C9: a step of the connection loop (connect, stream end or error, the
\* reconnect delay) changes neither the lock nor any timer.
C9_ReconnectFrame ==
    [][(pc[Main] \in ReconnectPcs /\ pc'[Main] \in ReconnectPcs /\ pc'[Main] # pc[Main])
          => /\ process' = process
             /\ helper' = helper
             /\ ilock' = ilock
             /\ timer' = timer
             /\ ntimers' = ntimers
             /\ \A t \in Timers : pc'[t] = pc[t]]_vars

\* C9 witness: the connection dropped and the delay has passed with the
\* lock Held and a timer armed.
C9_ReconnectWhileHeld == pc[Main] = "connect" /\ Held /\ Armed(timer)

\* C10: after a signal that arrived with the lock Held and a timer armed,
\* once stop() and release() have returned the lock is Released, no
\* idle-timeout callback begins, and the process exits with status 0.
C10_ShutdownScenario ==
    [][(sig_held_armed /\ pc[Main] = "fin")
          => /\ ~Held
             /\ process' = None
             /\ \A t \in Timers : Armed(t) => pc'[t] = "armed"
             /\ pc'[Main] = "exited" => exit_status' = 0]_vars

\* Thread th is inside acquire().
InAcquire(th) == pc[th] \in {"acq_check", "acq_spawn", "acq_store", "acq_poll"}

\* C11: an acquire() that fails (Popen raised, or the helper exited at
\* once) returns False with the lock Released and no helper of its own
\* left running, and an is_held() that finds the lock Released returns
\* False.
C11_FailedAcquireReleased ==
    [][\A th \in Threads :
          /\ (InAcquire(th) /\ ~InAcquire(th)' /\ pc'[th] = AfterAcquire(th))
                => IF last_call' = "acquire_failed"
                     THEN /\ process' = None
                          /\ ilock' = Free
                          /\ pc[th] = "acq_poll" => ~IsAlive(process)
                     ELSE process' # None
          /\ (pc[th] = "is_held" /\ pc'[th] # "is_held" /\ ~Held /\ ~signalled')
                => (pc'[th] = AfterIsHeld(th, FALSE) /\ ~Held')]_vars

\* C11 witness: the first activity line's helper exited right after the
\* spawn, acquire() has returned False and the lock is Released.
C11_HelperDiedAtOnce ==
    /\ last_call = "acquire_failed" /\ pc[Main] = "reset"
    /\ ntimers = 0 /\ helper[1] = "gone" /\ ~Held

\* C12: the stream thread calls acquire() only from handle_event's
\* is_held() test, once per activity line, and acquire() makes one spawn
\* attempt; when it has returned, failed or not, handle_event resets the
\* timer and returns to the stream; an activity line that finds the lock
\* Released calls acquire().
C12_RetryOnNextActivity ==
    [][/\ (pc'[Main] = "is_held" /\ pc[Main] # "is_held") => pc[Main] = "stream"
       /\ (pc'[Main] = "acq_check" /\ pc[Main] # "acq_check") => pc[Main] = "is_held"
       /\ (pc'[Main] = "acq_spawn" /\ pc[Main] # "acq_spawn") => pc[Main] = "acq_check"
       /\ (InAcquire(Main) /\ ~InAcquire(Main)' /\ ~signalled') => pc'[Main] = "reset"
       /\ (pc[Main] = "reset" /\ pc'[Main] # "reset" /\ ~signalled') => pc'[Main] = "stream"
       /\ (pc[Main] = "is_held" /\ pc'[Main] # "is_held" /\ ~Held /\ ~signalled')
             => pc'[Main] = "acq_check"]_vars

\* C12 witness: an earlier activity line was handled without any helper
\* having been spawned (its acquire() failed), and the next activity line
\* is calling acquire() again.
C12_SecondAttempt == pc[Main] = "acq_check" /\ ntimers >= 1 /\ spawned = 0

\* C13: is_held() returns True only when the stored helper is running at
\* the check; when the helper of a Held lock has died, is_held() stores
\* None and returns False, and handle_event's acquire() then finds the
\* lock Released and goes on to spawn a new helper.
C13_IsHeldDetectsDeath ==
    [][\A th \in Threads :
          /\ (pc[th] = "is_held" /\ pc'[th] = AfterIsHeld(th, TRUE))
                => (Held /\ IsAlive(process) /\ process' = process)
          /\ (pc[th] = "is_held" /\ pc'[th] # "is_held" /\ Held /\ ~IsAlive(process)
                /\ ~signalled')
                => (process' = None /\ pc'[th] = AfterIsHeld(th, FALSE))
          /\ (th = Main /\ pc[th] = "acq_check" /\ pc'[th] # "acq_check" /\ ~signalled')
                => (~Held /\ pc'[th] = "acq_spawn")]_vars

\* C13 witness: the helper of a Held lock has died on its own (no release()
\* is in progress) and an activity line's is_held() is about to poll it.
C13_DeadHelperPolled ==
    /\ pc[Main] = "is_held" /\ Held /\ helper[process] = "gone"
    /\ ilock = Free
    /\ \A t \in Timers : ~InFlight(t)

\* Thread th is inside release().
InRelease(th) == pc[th] \in {"rel_check", "rel_term", "rel_fin"}

\* C14: release() has one way out, a normal return to its caller with the
\* lock Released and the mutex dropped, whether the teardown terminated
\* the helper or raised; a release() past its test is never stuck, and an
\* acquire() that follows is not turned away by a stale handle.
C14_ReleaseAlwaysReleased ==
    /\ [][\A th \in Threads :
             (InRelease(th) /\ ~InRelease(th)')
                => (pc'[th] = AfterRelease(th) /\ process' = None /\ ilock' # th)]_vars
    /\ [](\A th \in Threads :
             (Running /\ pc[th] \in {"rel_term", "rel_fin"})
                => ENABLED (release_teardown(th) \/ release_finally(th)))

\* C14 witness: the only timer's callback has come back from a release()
\* whose teardown raised (the helper is left running): the lock is
\* Released.
C14_ReleasedAfterTeardownError ==
    /\ pc[1] = "tc_clear" /\ helper[1] = "leaked" /\ ~Held
    /\ ntimers = 1 /\ pc[Main] = "stream"

\* C15: the steps of stop() (setting the stop flag, then cancel_timer())
\* leave the IdleInhibitor as it is: the handle, the helpers and the mutex
\* are unchanged; stop() sets the flag, cancel_timer() cancels and forgets
\* the timer the monitor refers to, and main() then calls release().
C15_StopKeepsLock ==
    [][(pc[Main] \in {"stop", "cancel"} /\ pc'[Main] # pc[Main])
          => /\ process' = process
             /\ helper' = helper
             /\ ilock' = ilock
             /\ pc[Main] = "stop" => (should_stop' /\ pc'[Main] = "cancel")
             /\ pc[Main] = "cancel"
                   => /\ pc'[Main] = "rel_check"
                      /\ timer' = None
                      /\ timer # None => pc'[timer] # "armed"]_vars

\* C15 witness: stop() has returned during shutdown, its timer cancelled,
\* and the lock is still Held by a running helper; main() is about to call
\* release().
C15_HeldAfterStop ==
    /\ pc[Main] = "rel_check" /\ should_stop /\ signalled
    /\ Held /\ helper[process] = "alive"
    /\ \E t \in Timers : pc[t] = "finished"

\* Main-thread positions inside connect_and_monitor().
AttemptPcs == TryPcs \ {"sleep"}

\* C16: a connection attempt ends (connect failed, stream ended, or an
\* exception while reading or handling a line) only into the reconnect
\* delay, unless a signal arrives; the main loop is left and the process
\* exits with status 0 only after a signal; and the reconnect delay is
\* always followed by another connection attempt unless a signal arrives.
C16_KeepsRetrying ==
    /\ [][(pc[Main] \in AttemptPcs /\ pc'[Main] \notin AttemptPcs /\ ~signalled')
             => (pc'[Main] = "sleep" /\ exit_status' = -1)]_vars
    /\ []((pc[Main] \in {"stop", "cancel", "fin"} \/ exit_status = 0) => signalled)
    /\ ((pc[Main] = "sleep") ~> (pc[Main] = "connect" \/ signalled))

\* C16 witness: an attempt that had handled an activity line has ended,
\* the delay has passed and, no signal having arrived, main() connects
\* again with the lock still Held.
C16_ConnectsAgain == pc[Main] = "connect" /\ ntimers >= 1 /\ ~signalled /\ Held

\* C17: the availability check either passes, and main() goes on to the
\* main loop, or fails, and the process exits at once with a non-zero
\* status; a process that exited with a non-zero status made no connection
\* attempt, created no timer, never called acquire() and spawned no
\* helper, and a process that exits with status 0 went through shutdown.
C17_StartupFailureFatal ==
    /\ [][pc[Main] = "start"
             => \/ pc'[Main] = "connect" /\ exit_status' = -1
                \/ pc'[Main] = "exited" /\ exit_status' > 0]_vars
    /\ [][(exit_status = -1 /\ exit_status' = 0) => pc[Main] = "fin"]_vars
    /\ [](exit_status > 0
             => /\ pc[Main] = "exited"
                /\ \A t \in Timers : pc[t] = "new"
                /\ spawned = 0 /\ ntimers = 0 /\ ~Held /\ timer = None
                /\ ilock = Free /\ ~should_stop /\ ~signalled)

\* C17 witness: the process has exited with a non-zero status.
C17_ExitedAtStartup == exit_status > 0 /\ pc[Main] = "exited"

\* The line has the characters d, a, t, a, : after leading whitespace only.
IsDataLine(s) ==
    \E i \in 1..Len(s) :
       /\ \A j \in 1..(i - 1) : s[j] \in Whitespace
       /\ i + 4 <= Len(s)
       /\ <<s[i], s[i + 1], s[i + 2], s[i + 3], s[i + 4]>> = <<"d", "a", "t", "a", ":">>

\* C18: handle_event goes on to is_held() (and from there to acquire() and
\* reset_idle_timer()) exactly for the lines that start with "data:" once
\* stripped: for any other line nothing is acquired, spawned or armed, and
\* for such a line handle_event does proceed and its reset_idle_timer()
\* arms a timer.
C18_EventClassification ==
    /\ [][/\ pc[Main] = "stream"
                => (IsDataLine(cur_line) /\ pc'[Main] = "is_held"
                      /\ UNCHANGED <<inhibitor, monitor>>)
          /\ pc[Main] = "reset"
                => (ntimers' = ntimers + 1 /\ pc'[ntimers'] = "armed"
                      /\ pc'[Main] = "stream")]_vars
    /\ [](~IsDataLine(cur_line)
             => /\ pc[Main] = "stream"
                /\ spawned = 0 /\ ntimers = 0 /\ ~Held /\ timer = None)
    /\ []((IsDataLine(cur_line) /\ pc[Main] = "stream" /\ ntimers < MaxEvents)
             => ENABLED <<handle_event(cur_line)>>_vars)

\* C18 witness: a line with whitespace before and after "data:" has been
\* handled: a helper was spawned, the lock is Held and a timer is armed.
C18_PaddedDataLineHandled ==
    /\ cur_line = <<" ", "d", "a", "t", "a", ":", "x", " ">>
    /\ pc[Main] = "stream" /\ Held /\ ntimers = 1 /\ Armed(1)

\* C19: once the process has finished shutting down (exit status 0), no
\* helper process the daemon spawned and did not fail to tear down is
\* still running.
C19_NoHelperAfterShutdown ==
    exit_status = 0 => \A h \in Helpers : helper[h] # "alive"

\* C20: whenever the lock is Held while the stream thread is outside
\* handle_event and shutdown has not begun, some idle timer is armed or its
\* callback is in flight.
C20_HeldHasDeadline ==
    (Held /\ pc[Main] \in ReconnectPcs)
       => \E t \in Timers : Armed(t) \/ InFlight(t)

\* C20 witness: the lock is Held by a running helper, the stream is idle,
\* no timer is armed any more and the release still to come is that of a
\* callback in flight.
C20_OnlyCallbackInFlight ==
    /\ Held /\ helper[process] = "alive" /\ pc[Main] = "stream"
    /\ ArmedTimers = {}
    /\ \E t \in Timers : InFlight(t)

====
